---- MODULE Spec2Model ----
(***************************************************************************)
(* The simulation engine of src/components/Game.tsx: the React component   *)
(* Game with its state hooks (gameState, score, highScore), its refs       *)
(* (player, enemies, particles, pulses, shockwaves, timers, counters), the *)
(* frame loop (update), the input handler (handleGlobalInteraction,        *)
(* resetGame, executeJump) and React's rendering of the state hooks.       *)
(*                                                                         *)
(* Numbers.  The program computes in floating point.  The model computes   *)
(* in fixed point: every length, velocity, radius, fuel amount and shake   *)
(* intensity is an integer number of hundredths of a logical unit (the     *)
(* literal 60 of the source is 6000 here), every ratio is in percent, every*)
(* probability in 1/10000.  Timers and lives count whole ticks (dt = 1).   *)
(***************************************************************************)
EXTENDS Integers, Sequences, FiniteSets, TLC

(***************************************************************************)
(* Constants of ../constants (GAME_WIDTH, GAME_HEIGHT, PHYSICS).            *)
(***************************************************************************)
GAME_WIDTH == 40000

GAME_HEIGHT == 60000

MAX_FUEL == 10000

AIR_RESISTANCE == 98

(***************************************************************************)
(* Literals of Game.tsx.                                                    *)
(***************************************************************************)
TicksPerSecond == 60

PointsPerSecond == 10

SuperInvincibility == 15

SuperPulseLife == 15

NormalPulseLife == 8

SuperPulseExtra == 3000

NormalPulseExtra == 1000

KillFlash == 10

RejectShake == 500

SuperShake == 3000

JumpShake == 1500

FallShake == 2500

ContactSlack == 200

SpawnMargin == 2000

SpawnExclusion == 6000

SpawnY == -3000

PruneMargin == 5000

MinRadius == 1000

RadiusSpan == 1200

BaseSpeed == 150

SpeedCap == 800

CycleSeconds == 120

StartLift == 10000

ChainScale == 80

KillThrottle == 60

CueThrottle == 50

(***************************************************************************)
(* Bounds of the model.                                                     *)
(***************************************************************************)
MaxTicks == 7

MaxScoreTicks == 182

MaxJumps == 2

MaxScoreJumps == 1

MaxEnemyId == 2

MaxResets == 2

MaxScoreResets == 1

MaxStale == 1

MaxHighTicks == 63

MaxCurveTicks == 4

MaxAudioTicks == 3

MaxAudioJumps == 3

MaxAudioResets == 1

MaxEdgeTicks == 3

MaxLongTicks == 17

MaxFallTicks == 82

(***************************************************************************)
(* GameState of ../types.                                                   *)
(***************************************************************************)
START == "START"

PLAYING == "PLAYING"

GAMEOVER == "GAMEOVER"

(***************************************************************************)
(* Arithmetic helpers.                                                      *)
(***************************************************************************)
Abs(a) == IF a < 0 THEN -a ELSE a

Min(a, b) == IF a < b THEN a ELSE b

Max(a, b) == IF a > b THEN a ELSE b

\* Division truncating towards zero, for scaling a signed fixed-point value.
TDiv(a, b) == IF a >= 0 THEN a \div b ELSE -((-a) \div b)

RECURSIVE SqrtSearch(_, _, _)
SqrtSearch(n, lo, hi) ==
  IF lo >= hi THEN lo
  ELSE LET mid == (lo + hi + 1) \div 2
       IN IF mid * mid <= n THEN SqrtSearch(n, mid, hi)
          ELSE SqrtSearch(n, lo, mid - 1)

\* Math.sqrt on a non-negative integer, rounded down.
ISqrt(n) == SqrtSearch(n, 0, 46340)

\* Math.sqrt(dx*dx + dy*dy) < r, decided on the squares.
Closer(dx, dy, r) ==
  /\ r > 0
  /\ Abs(dx) < r
  /\ Abs(dy) < r
  /\ dx * dx + dy * dy < r * r

\* Math.sin(Math.PI * a / m) in 1/1000 for 0 <= a <= m, 0 < m <= 700
\* (Bhaskara's rational approximation; exact at 0, 1/6, 1/2, 5/6 and 1).
SinPi(a, m) == (16000 * a * (m - a)) \div (5 * m * m - 4 * a * (m - a))

\* Math.sin(c / 100) in 1/1000 for c >= 0 hundredths of a radian.
SinCenti(c) ==
  LET r == c % 628
  IN IF r <= 314 THEN SinPi(r, 314) ELSE -SinPi(r - 314, 314)

(***************************************************************************)
(* GameConfig (the config prop).  App.tsx holds the default; the other      *)
(* records are settings of the tuning panel.  Lengths in 1/100 unit,        *)
(* ratios in percent, enemySpawnRate and spawnCurve in 1/10000.             *)
(***************************************************************************)
DefaultConfig ==
  [ gravity |-> 16, recoilForce |-> 600, fuelRegen |-> 10,
    fuelConsumption |-> 1200, enemySpawnRate |-> 100,
    bounceElasticity |-> 120, difficultyScale |-> 50,
    deadZoneThreshold |-> 15, superJumpMultiplier |-> 300,
    spawnCurve |-> <<1000, 1786, 2976, 4000, 4762>>,
    deadJumpEnabled |-> FALSE, burningEnabled |-> TRUE,
    burningRadius |-> 8000, burningDuration |-> 44,
    playerSize |-> 2000, audioEnabled |-> TRUE, sfxVolume |-> 4 ]

\* A large player in a strong gravity field with the dead zone covering the
\* lower half: super jumps, pulse kills and chained shockwaves within a few
\* ticks.
SuperArena ==
  [ DefaultConfig EXCEPT
      !.gravity = 5000, !.recoilForce = 6000, !.fuelRegen = 3500,
      !.fuelConsumption = 6000, !.enemySpawnRate = 5000,
      !.deadZoneThreshold = 50, !.deadJumpEnabled = TRUE,
      !.burningRadius = 40000, !.burningDuration = 3,
      !.playerSize = 10000 ]

\* The same field without the dead jump and with a strong recoil: normal
\* jumps that carry the player above the enemies.
NormalArena ==
  [ DefaultConfig EXCEPT
      !.gravity = 2000, !.recoilForce = 18000, !.fuelRegen = 3500,
      !.fuelConsumption = 4000, !.enemySpawnRate = 5000,
      !.burningRadius = 40000, !.burningDuration = 3,
      !.playerSize = 10000 ]

\* The dead zone covers the whole field: a super jump carries the player to
\* the top, among the enemies that have just spawned, and a second one past
\* the top, where jumps are normal again.
TopArena ==
  [ DefaultConfig EXCEPT
      !.gravity = 2000, !.recoilForce = 10000, !.fuelRegen = 3500,
      !.fuelConsumption = 4000, !.enemySpawnRate = 5000,
      !.deadZoneThreshold = 100, !.deadJumpEnabled = TRUE,
      !.burningRadius = 40000, !.burningDuration = 3,
      !.playerSize = 10000 ]

\* No enemies and a recoil that carries the small player from the middle of
\* the field to a wall within two ticks, and from wall to wall within four.
WallArena ==
  [ DefaultConfig EXCEPT
      !.gravity = 2000, !.recoilForce = 10000, !.fuelRegen = 3500,
      !.fuelConsumption = 4000, !.enemySpawnRate = 0, !.difficultyScale = 0 ]

\* The same field with walls that absorb half of the velocity.
SoftWallArena == [ WallArena EXCEPT !.bounceElasticity = 50 ]

\* No enemies; the player falls past the bottom in tick 59.
SlowFall ==
  [ DefaultConfig EXCEPT
      !.gravity = 23, !.enemySpawnRate = 0, !.difficultyScale = 0 ]

\* No enemies; the player falls past the bottom in tick 62, after the score
\* has reached 10.
LateFall ==
  [ DefaultConfig EXCEPT
      !.gravity = 21, !.enemySpawnRate = 0, !.difficultyScale = 0 ]

\* No enemies and no gravity: the player hovers.
Hover ==
  [ DefaultConfig EXCEPT
      !.gravity = 0, !.enemySpawnRate = 0, !.difficultyScale = 0 ]

\* The hovering player under three spawn curves: one segment, two segments
\* and the default's four.
CurveConfigs ==
  { [ Hover EXCEPT !.spawnCurve = << 0, 10000 >> ],
    [ Hover EXCEPT !.spawnCurve = << 10000, 0, 5000 >> ],
    Hover }

\* Elapsed times two ticks before every twelfth of the 120 s cycle, over a
\* cycle and the start of the next one.
CurveStarts == { k * 600 - 2 : k \in 1..13 }

ArenaConfigs == {SuperArena, NormalArena}

ScoreConfigs == {SlowFall, Hover}

HighConfigs == {LateFall}

TopConfigs == {TopArena}

\* The two arenas with the burning switched off.
ColdConfigs ==
  { [ SuperArena EXCEPT !.burningEnabled = FALSE ],
    [ NormalArena EXCEPT !.burningEnabled = FALSE ] }

WallConfigs == {WallArena, SoftWallArena}

\* TopArena with a gravity under which the player falls past the bottom in
\* tick 2 unless it jumps.
AudioArena == [ TopArena EXCEPT !.gravity = 20000 ]

AudioConfigs == {AudioArena}

\* No enemies; the player falls past the bottom in tick 2.
MuteArena ==
  [ SuperArena EXCEPT
      !.gravity = 20000, !.enemySpawnRate = 0, !.difficultyScale = 0 ]

MuteConfigs == {MuteArena}

\* SuperArena with shockwaves that live four ticks and five.
BurnConfigs ==
  { [ SuperArena EXCEPT !.burningDuration = 4 ],
    [ SuperArena EXCEPT !.burningDuration = 5 ] }

\* The small player of WallArena among enemies, with a recoil that carries it
\* from the middle of the field to 40 units from a wall in one tick, and a
\* gravity under which it falls past the bottom in tick 2.
EdgeArena ==
  [ WallArena EXCEPT
      !.gravity = 20000, !.recoilForce = 15000, !.enemySpawnRate = 5000 ]

EdgeConfigs == {EdgeArena}

\* No gravity, slow enemies and a large player in a dead zone that covers the
\* whole field: a super jump aimed below the player carries it up at 17 units
\* a tick, into the enemies that spawn after the jump, and the player outlives
\* its pulses.  The second config has the dead jump switched off.
LongArena ==
  [ DefaultConfig EXCEPT
      !.gravity = 0, !.recoilForce = 850, !.superJumpMultiplier = 200,
      !.enemySpawnRate = 5000, !.difficultyScale = 0,
      !.deadZoneThreshold = 100, !.deadJumpEnabled = TRUE,
      !.burningRadius = 40000, !.burningDuration = 5,
      !.playerSize = 10000 ]

LongConfigs == { LongArena, [ LongArena EXCEPT !.deadJumpEnabled = FALSE ] }

\* LongArena with a spawn in every tick and a difficulty under which the
\* enemies have the capped speed from the first tick on: an enemy that nothing
\* eliminates is 50 units below the field after 80 ticks.
FallArena ==
  [ LongArena EXCEPT !.enemySpawnRate = 10000, !.difficultyScale = 780000 ]

FallConfigs == {FallArena}

\* An arena with a spawn curve of no points and one with a curve of one.
BadCurveConfigs ==
  { [ NormalArena EXCEPT !.spawnCurve = << >> ],
    [ NormalArena EXCEPT !.spawnCurve = << 5000 >> ] }

(***************************************************************************)
(* Inputs: the pointer targets of a jump, as offsets from the player's      *)
(* centre, and the values Math.random() returns (in 1/10000).               *)
(***************************************************************************)
JumpOffsets == { <<0, 10000>>, <<0, 0>> }

\* Targets to the left and to the right of the player.
WallOffsets == { <<-10000, 0>>, <<10000, 0>> }

SpawnDraws == {0, 9999}

SpawnXDraws == {5000}

\* spawnX in the middle and next to the right margin.
FallXDraws == {5000, 9999}

\* spawnX at the left margin, in the middle and next to the right margin.
EdgeXDraws == {0, 5000, 9999}

RadiusDraws == {9900}

SpeedDraws == {5000}

ParticleLifeDraws == {0}

\* The milliseconds of Date.now() between one operation (a frame of the loop
\* or an input event) and the next: here no two operations within a throttle
\* window of each other.
FrameWaits == {60}

\* Operations a third of a throttle window apart, or a whole one.
AudioWaits == {20, 60}

VARIABLES
  cfg,                \* the config prop
  gameState,          \* useState gameState, as rendered
  score,              \* useState score, as rendered
  highScore,          \* useState highScore, as rendered
  pendGameState,      \* setGameState value waiting for a render: <<v>> or <<>>
  pendScore,          \* setScore value waiting for a render: <<v>> or <<>>
  pendHighScore,      \* setHighScore value waiting for a render: <<v>> or <<>>
  effectsPending,     \* a render is committed, its effects have not run
  gameStateRef,       \* gameStateRef.current
  updGameState,       \* gameState in the closure of the running loop's update
  elapsedTime,        \* elapsedTimeRef.current
  invincibilityFrames,\* invincibilityFramesRef.current
  player,             \* playerRef.current
  enemies,            \* enemiesRef.current
  particles,          \* particlesRef.current, as groups of equal particles
  pulses,             \* pulsesRef.current
  shockwaves,         \* shockwavesRef.current
  shake,              \* shakeRef.current.intensity
  enemyIdCounter,     \* enemyIdCounter.current
  shockwaveIdCounter, \* shockwaveIdCounter.current
  cues,               \* the playSound calls of the last operation, in order
  lastOp,             \* the last operation
  playTicks,          \* ticks that ran the PLAYING body since the last reset
  jumps,              \* executeJump calls so far
  resets,             \* resetGame calls so far
  stale,              \* ticks run since a render or its effects are waiting
  trigCfg,            \* config in the playSound that triggerShockwave holds
  lastSoundPlayed,    \* per cue type, Date.now() - lastSoundPlayedRef.current
  audioCtx,           \* audioCtxRef.current is set
  backend,            \* new AudioContext() succeeds
  loopRunning,        \* a frame of the loop is requested
  emitted,            \* the cues the last operation played, in order
  fault,              \* the last operation ended by an exception of playSound
  waited              \* milliseconds from the operation before to the last one

vars ==
  << cfg, gameState, score, highScore, pendGameState, pendScore,
     pendHighScore, effectsPending, gameStateRef, updGameState, elapsedTime,
     invincibilityFrames, player, enemies, particles, pulses, shockwaves,
     shake, enemyIdCounter, shockwaveIdCounter, cues, lastOp, playTicks,
     jumps, resets, stale, trigCfg, lastSoundPlayed, audioCtx, backend,
     loopRunning, emitted, fault, waited >>

(***************************************************************************)
(* React state hooks.  A setState call queues its value; the component is  *)
(* rendered later and the queued value becomes the hook's value.  A call    *)
(* with the current value and nothing queued schedules no render.           *)
(***************************************************************************)
SetState(pend, cur, v) == IF pend = <<>> /\ v = cur THEN <<>> ELSE <<v>>

Rendered(pend, cur) == IF pend = <<>> THEN cur ELSE pend[1]

(***************************************************************************)
(* playerRef's initial value and resetGame's player.                        *)
(***************************************************************************)
InitialPlayer(c) ==
  [ x |-> GAME_WIDTH \div 2 - c.playerSize \div 2,
    y |-> GAME_HEIGHT \div 2 - StartLift,
    width |-> c.playerSize, height |-> c.playerSize,
    vx |-> 0, vy |-> 0,
    fuel |-> MAX_FUEL, maxFuel |-> MAX_FUEL, flashTimer |-> 0 ]

CenterX(p) == p.x + p.width \div 2

CenterY(p) == p.y + p.height \div 2

(***************************************************************************)
(* update: the pieces of one tick.                                          *)
(***************************************************************************)
\* The gate written against GAMEOVER alone.
TickGateNotOver(gs) == gs # GAMEOVER

\* if (gameState !== GameState.PLAYING) return;
TickGate(gs) == gs = PLAYING

\* Math.floor(elapsedTimeRef.current / 60) * 10
ScoreOf(t) == (t \div TicksPerSecond) * PointsPerSecond

\* if (invincibilityFramesRef.current > 0) invincibilityFramesRef.current -= dt
DecInvincibility(inv) == IF inv > 0 THEN inv - 1 ELSE inv

\* gravity, movement, air resistance and the flash timer
Integrate(p, c) ==
  LET vy1 == p.vy + c.gravity
  IN [ p EXCEPT !.vy = vy1,
                !.x = p.x + p.vx,
                !.y = p.y + vy1,
                !.vx = TDiv(p.vx * AIR_RESISTANCE, 100),
                !.flashTimer = IF p.flashTimer > 0 THEN p.flashTimer - 1
                               ELSE p.flashTimer ]

\* A wall that reflects the velocity unscaled.
BounceElastic(vx, c) == -vx

\* -player.vx * config.bounceElasticity
Bounce(vx, c) == TDiv((-vx) * c.bounceElasticity, 100)

\* Walls that reflect the velocity and leave the position alone.
WallsReflectOnly(p, sh, c) ==
  IF p.x < 0 \/ p.x > GAME_WIDTH - p.width
  THEN [ p |-> [p EXCEPT !.vx = Bounce(p.vx, c)],
         sh |-> Abs(Bounce(p.vx, c)) \div 2 ]
  ELSE [ p |-> p, sh |-> sh ]

\* the left wall, then the right wall: [player, shake intensity]
Walls(p, sh, c) ==
  LET l == IF p.x < 0
           THEN [ p |-> [p EXCEPT !.x = 0, !.vx = Bounce(p.vx, c)],
                  sh |-> Abs(Bounce(p.vx, c)) \div 2 ]
           ELSE [ p |-> p, sh |-> sh ]
  IN IF l.p.x > GAME_WIDTH - l.p.width
     THEN [ p |-> [l.p EXCEPT !.x = GAME_WIDTH - l.p.width,
                              !.vx = Bounce(l.p.vx, c)],
            sh |-> Abs(Bounce(l.p.vx, c)) \div 2 ]
     ELSE l

\* Regeneration without the Math.min.
RegenUnclamped(fuel, maxFuel, regen) ==
  IF fuel < maxFuel THEN fuel + regen ELSE fuel

\* player.fuel = Math.min(player.maxFuel, player.fuel + config.fuelRegen * dt)
Regen(fuel, maxFuel, regen) ==
  IF fuel < maxFuel THEN Min(maxFuel, fuel + regen) ELSE fuel

\* A bottom test that spares the invincible player.
FellOutShielded(p) == invincibilityFrames <= 1 /\ p.y > GAME_HEIGHT

\* The bottom test taken at the player's lower edge.
FellOutLowerEdge(p) == p.y + p.height > GAME_HEIGHT

\* if (player.y > GAME_HEIGHT)
FellOut(p) == p.y > GAME_HEIGHT

\* shakeRef.current.intensity *= 0.9
DecayShake(sh) == IF sh > 0 THEN (sh * 9) \div 10 ELSE sh

\* A filter that keeps what has just run out of life.
AgeAllLate(s) ==
  SelectSeq([i \in DOMAIN s |-> [s[i] EXCEPT !.life = s[i].life - 1]],
            LAMBDA q : q.life >= 0)

\* particles and pulses: one tick of life, then the filter
AgeAll(s) ==
  SelectSeq([i \in DOMAIN s |-> [s[i] EXCEPT !.life = s[i].life - 1]],
            LAMBDA q : q.life > 0)

(***************************************************************************)
(* playSound.  The table lastSoundPlayedRef.current is kept as ages: for    *)
(* each cue type the milliseconds of Date.now() since the type was last     *)
(* stamped, cut at Expired (the code compares an age with a throttle window *)
(* and nothing else; a type never stamped is Expired).  snd = [last, ctx,   *)
(* out, fault]: the ages, whether audioCtxRef.current is set, the cues      *)
(* played so far by the running operation and whether playSound has thrown; *)
(* nothing of the operation runs after the throw.                           *)
(***************************************************************************)
CueTypes == {"jump", "deadjump", "shockwave", "pulse", "kill"}

Expired == KillThrottle

\* const throttleTime = type === 'kill' ? 60 : 50
ThrottleTime(type) == IF type = "kill" THEN KillThrottle ELSE CueThrottle

\* the negation of: if (!config.audioEnabled || config.sfxVolume <= 0) return
AudioOn(c) == c.audioEnabled /\ c.sfxVolume > 0

\* the table ms milliseconds later
Aged(last, ms) == [ ty \in CueTypes |-> Min(Expired, last[ty] + ms) ]

\* snd when an operation starts, ms milliseconds after the one before
Sound(ms) ==
  [ last |-> Aged(lastSoundPlayed, ms), ctx |-> audioCtx, out |-> <<>>,
    fault |-> FALSE ]

\* A playSound that stamps the table before it looks at the throttle.
PlaySoundRestamps(snd, type, c) ==
  IF snd.fault \/ ~AudioOn(c) THEN snd
  ELSE IF snd.last[type] < ThrottleTime(type)
       THEN [ snd EXCEPT !.last[type] = 0 ]
       ELSE IF ~snd.ctx /\ ~backend
            THEN [ snd EXCEPT !.last[type] = 0, !.fault = TRUE ]
            ELSE [ snd EXCEPT !.last[type] = 0, !.ctx = TRUE,
                              !.out = Append(snd.out, type) ]

\* playSound(type), with the config c of the render it was created in
PlaySound(snd, type, c) ==
  IF snd.fault \/ ~AudioOn(c) THEN snd
  ELSE IF snd.last[type] < ThrottleTime(type) THEN snd
       ELSE IF ~snd.ctx /\ ~backend
            THEN [ snd EXCEPT !.last[type] = 0, !.fault = TRUE ]
            ELSE [ snd EXCEPT !.last[type] = 0, !.ctx = TRUE,
                              !.out = Append(snd.out, type) ]

\* k calls of playSound(type) in a row
RECURSIVE PlaySounds(_, _, _, _)
PlaySounds(k, snd, type, c) ==
  IF k = 0 THEN snd ELSE PlaySounds(k - 1, PlaySound(snd, type, c), type, c)

(***************************************************************************)
(* triggerShockwave, on st = [sws, idc, cues, snd]: the shockwave list, the *)
(* id counter, the sound calls made so far and what playSound made of them. *)
(* triggerShockwave is memoized on the burning settings alone: its          *)
(* playSound is the one of the render that created it (trigCfg).            *)
(***************************************************************************)
NewShockwave(x, y, scale, id, c) ==
  [ x |-> x, y |-> y, radius |-> 0,
    maxRadius |-> TDiv(c.burningRadius * scale, 100),
    life |-> c.burningDuration, maxLife |-> c.burningDuration, id |-> id ]

\* triggerShockwave without its switch.
TriggerShockwaveAlways(st, x, y, scale, c) ==
  [ st EXCEPT !.sws = Append(st.sws, NewShockwave(x, y, scale, st.idc, c)),
              !.idc = st.idc + 1,
              !.cues = Append(st.cues, "shockwave"),
              !.snd = PlaySound(st.snd, "shockwave", trigCfg) ]

TriggerShockwave(st, x, y, scale, c) ==
  IF ~c.burningEnabled THEN st
  ELSE [ st EXCEPT !.sws = Append(st.sws, NewShockwave(x, y, scale, st.idc, c)),
                   !.idc = st.idc + 1,
                   !.cues = Append(st.cues, "shockwave"),
                   !.snd = PlaySound(st.snd, "shockwave", trigCfg) ]

\* Chained shockwaves of the full radius.
RECURSIVE ChainKillsFullScale(_, _, _, _, _)
ChainKillsFullScale(k, st, x, y, c) ==
  IF k = 0 THEN st
  ELSE LET t == TriggerShockwave(st, x, y, 100, c)
       IN ChainKillsFullScale(k - 1,
                              [t EXCEPT !.cues = Append(t.cues, "kill"),
                                        !.snd = PlaySound(t.snd, "kill", c)],
                              x, y, c)

\* k eliminations by a shockwave: triggerShockwave(.., 0.8); playSound('kill')
RECURSIVE ChainKills(_, _, _, _, _)
ChainKills(k, st, x, y, c) ==
  IF k = 0 THEN st
  ELSE LET t == TriggerShockwave(st, x, y, ChainScale, c)
       IN ChainKills(k - 1,
                     [t EXCEPT !.cues = Append(t.cues, "kill"),
                               !.snd = PlaySound(t.snd, "kill", c)],
                     x, y, c)

\* A radius that grows over the whole lifetime: sin(progress * PI / 2).
AdvanceShockwaveGrowing(sw, pcx, pcy) ==
  LET life == sw.life - 1
  IN [ sw EXCEPT !.x = pcx, !.y = pcy, !.life = life,
                 !.radius = TDiv(SinPi(sw.maxLife - life, 2 * sw.maxLife)
                                 * (sw.maxRadius \div 10), 100) ]

\* sw.x, sw.y, sw.life and sw.radius of a shockwave in a tick
AdvanceShockwave(sw, pcx, pcy) ==
  LET life == sw.life - 1
  IN [ sw EXCEPT !.x = pcx, !.y = pcy, !.life = life,
                 !.radius = TDiv(SinPi(sw.maxLife - life, sw.maxLife)
                                 * (sw.maxRadius \div 10), 100) ]

\* dist < sw.radius + e.radius
InReach(sw, e) == Closer(e.x - sw.x, e.y - sw.y, sw.radius + e.radius)

\* A loop that also visits the shockwaves pushed while it runs.
RECURSIVE ShockwaveLoopToEnd(_, _, _, _, _, _)
ShockwaveLoopToEnd(i, n0, st, pcx, pcy, c) ==
  IF i > Len(st.sws) THEN st
  ELSE LET sw == AdvanceShockwave(st.sws[i], pcx, pcy)
           hit == { j \in DOMAIN st.ens :
                      ~st.ens[j].isDead /\ InReach(sw, st.ens[j]) }
           ens1 == [ j \in DOMAIN st.ens |->
                       IF j \in hit THEN [st.ens[j] EXCEPT !.isDead = TRUE]
                       ELSE st.ens[j] ]
           st1 == [ st EXCEPT !.sws[i] = sw, !.ens = ens1 ]
       IN ShockwaveLoopToEnd(i + 1, n0,
                             ChainKills(Cardinality(hit), st1, pcx, pcy, c),
                             pcx, pcy, c)

\* shockwavesRef.current.forEach: the shockwaves present when the loop starts
\* (n0 of them), in order, each against every enemy; the shockwaves pushed
\* meanwhile are not visited.  st = [sws, idc, cues, snd, ens].
RECURSIVE ShockwaveLoop(_, _, _, _, _, _)
ShockwaveLoop(i, n0, st, pcx, pcy, c) ==
  IF i > n0 THEN st
  ELSE LET sw == AdvanceShockwave(st.sws[i], pcx, pcy)
           hit == { j \in DOMAIN st.ens :
                      ~st.ens[j].isDead /\ InReach(sw, st.ens[j]) }
           ens1 == [ j \in DOMAIN st.ens |->
                       IF j \in hit THEN [st.ens[j] EXCEPT !.isDead = TRUE]
                       ELSE st.ens[j] ]
           st1 == [ st EXCEPT !.sws[i] = sw, !.ens = ens1 ]
       IN ShockwaveLoop(i + 1, n0,
                        ChainKills(Cardinality(hit), st1, pcx, pcy, c),
                        pcx, pcy, c)

(***************************************************************************)
(* The spawn director.                                                      *)
(***************************************************************************)
\* 1.0 + 0.6 * Math.sin(seconds * 0.8), in 1/1000
WaveFactor(t) == 1000 + TDiv(600 * SinCenti((t * 4) \div 3), 1000)

\* The curve sampled as a staircase.
CurveValueStep(t, points) ==
  points[(((t % (CycleSeconds * TicksPerSecond)) * (Len(points) - 1))
            \div (CycleSeconds * TicksPerSecond)) + 1]

\* the piecewise-linear sample of config.spawnCurve at tick t, in 1/10000
CurveValue(t, points) ==
  LET cycle == CycleSeconds * TicksPerSecond
      n == Len(points) - 1
      tn == (t % cycle) * n
      idx == tn \div cycle
      nxtIdx == Min(idx + 1, n)
      rem == tn % cycle
  IN (points[idx + 1] * (cycle - rem) + points[nxtIdx + 1] * rem) \div cycle

\* finalSpawnRate, in 1/10000
FinalSpawnRate(t, c) ==
  TDiv((c.enemySpawnRate
          + TDiv(CurveValue(t, c.spawnCurve) * c.difficultyScale, 1000))
       * WaveFactor(t), 1000)

\* finalSpeed
FinalSpeed(t, c) == Min(BaseSpeed + (t * c.difficultyScale) \div 1200, SpeedCap)

\* spawnX with the exclusion zone around the player's centre
SpawnX(rx, pcx) ==
  LET x0 == (rx * (GAME_WIDTH - 2 * SpawnMargin)) \div 10000 + SpawnMargin
  IN IF Abs(x0 - pcx) < SpawnExclusion
     THEN IF x0 < pcx THEN Max(SpawnMargin, x0 - SpawnExclusion)
          ELSE Min(GAME_WIDTH - SpawnMargin, x0 + SpawnExclusion)
     ELSE x0

\* An enemy that gets the id 0 whatever the counter says.
NewEnemyIdZero(id, t, rx, rr, rv, pcx, c) ==
  [ id |-> 0, x |-> SpawnX(rx, pcx), y |-> SpawnY,
    radius |-> MinRadius + (rr * RadiusSpan) \div 10000,
    speed |-> FinalSpeed(t, c) + rv \div 100, isDead |-> FALSE ]

NewEnemy(id, t, rx, rr, rv, pcx, c) ==
  [ id |-> id, x |-> SpawnX(rx, pcx), y |-> SpawnY,
    radius |-> MinRadius + (rr * RadiusSpan) \div 10000,
    speed |-> FinalSpeed(t, c) + rv \div 100, isDead |-> FALSE ]

\* curveValue is NaN: a curve without points has no points[idx], and
\* undefined * (1 - localT) is NaN; so is finalSpawnRate then.
CurveIsNaN(points) == Len(points) = 0

\* if (Math.random() < finalSpawnRate * dt), which is false of NaN; ids are
\* capped by MaxEnemyId
Spawns(rs, t, idc, c) ==
  /\ ~CurveIsNaN(c.spawnCurve)
  /\ rs < FinalSpawnRate(t, c)
  /\ idc < MaxEnemyId

(***************************************************************************)
(* The enemy loop and the filter.                                           *)
(***************************************************************************)
\* An enemy loop that passes every pulse still alive over the enemy again.
MoveEnemyUnderPulses(e) ==
  [ e EXCEPT
      !.y = e.y + e.speed,
      !.isDead =
        \/ e.isDead
        \/ \E k \in DOMAIN pulses :
             /\ e.x + e.radius > pulses[k].x
             /\ e.x - e.radius < pulses[k].x + pulses[k].width
             /\ IF pulses[k].isSuper THEN e.y < pulses[k].y
                ELSE e.y > pulses[k].y ]

\* e.y += e.speed * dt
MoveEnemy(e) == [e EXCEPT !.y = e.y + e.speed]

\* A contact test that ignores the invincibility.
LethalContactUnshielded(e, inv, pcx, pcy, width) ==
  Closer(e.x - pcx, e.y - pcy, e.radius + width \div 2 - ContactSlack)

\* invincibilityFramesRef.current <= 0 && pdist < e.radius + player.width/2 - 2
LethalContact(e, inv, pcx, pcy, width) ==
  /\ inv <= 0
  /\ Closer(e.x - pcx, e.y - pcy, e.radius + width \div 2 - ContactSlack)

\* A filter that lets the enemies fall for ever.
KeptLive(e) == ~e.isDead

\* enemiesRef.current.filter(e => !e.isDead && e.y < GAME_HEIGHT + 50)
Kept(e) == ~e.isDead /\ e.y < GAME_HEIGHT + PruneMargin

(***************************************************************************)
(* update, past its gate: the whole PLAYING tick at elapsed time t with the *)
(* random draws rs (spawn), rx (spawnX), rr (radius) and rv (speed), ms     *)
(* milliseconds after the operation before.  fellFault says that the        *)
(* playSound of the fall has thrown: the tick ends there, with partial.     *)
(***************************************************************************)
Update(t, rs, rx, rr, rv, ms) ==
  LET c == cfg
      inv == DecInvincibility(invincibilityFrames)
      pcx == CenterX(player)
      pcy == CenterY(player)
      moved == Walls(Integrate(player, c), shake, c)
      p1 == [ moved.p EXCEPT
                !.fuel = Regen(moved.p.fuel, moved.p.maxFuel, c.fuelRegen) ]
      fell == FellOut(p1)
      sh1 == DecayShake(IF fell THEN FallShake ELSE moved.sh)
      cues1 == IF fell THEN <<"shockwave">> ELSE <<>>
      snd1 == IF fell THEN PlaySound(Sound(ms), "shockwave", c) ELSE Sound(ms)
      swl == ShockwaveLoop(1, Len(shockwaves),
                           [ sws |-> shockwaves, idc |-> shockwaveIdCounter,
                             cues |-> cues1, snd |-> snd1, ens |-> enemies ],
                           pcx, pcy, c)
      spawn == Spawns(rs, t, enemyIdCounter, c)
      ens1 == IF spawn
              THEN Append(swl.ens,
                          NewEnemy(enemyIdCounter, t, rx, rr, rv, pcx, c))
              ELSE swl.ens
      ens2 == [ j \in DOMAIN ens1 |-> MoveEnemy(ens1[j]) ]
      contacts == { j \in DOMAIN ens2 :
                      LethalContact(ens2[j], inv, pcx, pcy, p1.width) }
      dead == fell \/ contacts # {}
  IN [ score |-> ScoreOf(t),
       over |-> dead,
       inv |-> inv,
       player |-> p1,
       shake |-> sh1,
       particles |-> AgeAll(particles),
       pulses |-> AgeAll(pulses),
       shockwaves |-> SelectSeq(swl.sws, LAMBDA sw : sw.life > 0),
       shockwaveIdCounter |-> swl.idc,
       enemies |-> SelectSeq(ens2, Kept),
       enemyIdCounter |-> IF spawn THEN enemyIdCounter + 1 ELSE enemyIdCounter,
       cues |-> swl.cues
                  \o [ j \in 1..Cardinality(contacts) |-> "shockwave" ],
       snd |-> PlaySounds(Cardinality(contacts), swl.snd, "shockwave", c),
       fellFault |-> snd1.fault,
       partial |-> [ shake |-> FallShake, cues |-> cues1, snd |-> snd1 ] ]

\* draw: the enemies it paints, with the gameState of its closure (the loop
\* calls the draw of the render its update comes from).
Drawn(gs, es) == IF gs = PLAYING \/ gs = GAMEOVER THEN es ELSE <<>>

\* A render, or the effects of one, are waiting to run.
Waiting ==
  \/ pendGameState # <<>>
  \/ pendScore # <<>>
  \/ pendHighScore # <<>>
  \/ effectsPending

\* One frame of the loop: update() of the closure the running loop holds,
\* with spawnX drawn from xs, some ms of waits after the operation before.
\* At most MaxStale frames run while a render or its effects are waiting.  An
\* exception out of update ends the loop: the next frame is not requested.
\* A tick in which playSound throws after the cue of the fall is not
\* followed.
Tick(cap, xs, waits) ==
  /\ loopRunning
  /\ elapsedTime < cap
  /\ Waiting => stale < MaxStale
  /\ stale' = IF Waiting THEN stale + 1 ELSE 0
  /\ elapsedTime' = elapsedTime + 1
  /\ \E ms \in waits :
       /\ waited' = ms
       /\ IF ~TickGate(updGameState)
          THEN /\ lastOp' = "idle"
               /\ cues' = <<>>
               /\ emitted' = <<>>
               /\ fault' = FALSE
               /\ lastSoundPlayed' = Aged(lastSoundPlayed, ms)
               /\ UNCHANGED << cfg, gameState, score, highScore,
                               pendGameState, pendScore, pendHighScore,
                               effectsPending, gameStateRef, updGameState,
                               invincibilityFrames, player, enemies,
                               particles, pulses, shockwaves, shake,
                               enemyIdCounter, shockwaveIdCounter, playTicks,
                               jumps, resets, trigCfg, audioCtx, backend,
                               loopRunning >>
          ELSE \E rs \in SpawnDraws, rx \in xs,
                  rr \in RadiusDraws, rv \in SpeedDraws :
                 \E u \in { Update(elapsedTime + 1, rs, rx, rr, rv, ms) } :
                    /\ pendScore' = SetState(pendScore, score, u.score)
                    /\ invincibilityFrames' = u.inv
                    /\ player' = u.player
                    /\ playTicks' = playTicks + 1
                    /\ UNCHANGED << cfg, gameState, score, highScore,
                                    pendHighScore, effectsPending,
                                    gameStateRef, updGameState, jumps,
                                    resets, trigCfg, backend >>
                    /\ IF u.fellFault
                       THEN /\ lastOp' = "tick"
                            /\ fault' = TRUE
                            /\ loopRunning' = FALSE
                            /\ pendGameState' =
                                 SetState(pendGameState, gameState, GAMEOVER)
                            /\ shake' = u.partial.shake
                            /\ cues' = u.partial.cues
                            /\ emitted' = u.partial.snd.out
                            /\ lastSoundPlayed' = u.partial.snd.last
                            /\ audioCtx' = u.partial.snd.ctx
                            /\ UNCHANGED << particles, pulses, shockwaves,
                                            shockwaveIdCounter, enemies,
                                            enemyIdCounter >>
                       ELSE /\ ~u.snd.fault
                            /\ lastOp' = "tick"
                            /\ fault' = FALSE
                            /\ pendGameState' =
                                 IF u.over
                                 THEN SetState(pendGameState, gameState,
                                               GAMEOVER)
                                 ELSE pendGameState
                            /\ shake' = u.shake
                            /\ particles' = u.particles
                            /\ pulses' = u.pulses
                            /\ shockwaves' = u.shockwaves
                            /\ shockwaveIdCounter' = u.shockwaveIdCounter
                            /\ enemies' = u.enemies
                            /\ enemyIdCounter' = u.enemyIdCounter
                            /\ cues' = u.cues
                            /\ emitted' = u.snd.out
                            /\ lastSoundPlayed' = u.snd.last
                            /\ audioCtx' = u.snd.ctx
                            /\ UNCHANGED loopRunning

(***************************************************************************)
(* executeJump.                                                             *)
(***************************************************************************)
\* The fuel check against an empty tank only.
CanJumpUnlessEmpty(fuel, consumption) == fuel > 0

\* the negation of: if (player.fuel < config.fuelConsumption) { ...; return }
CanJump(fuel, consumption) == fuel >= consumption

\* config.deadJumpEnabled && (player.y + player.height > deadZoneY)
InDeadZone(p, c) ==
  /\ c.deadJumpEnabled
  /\ p.y + p.height > (GAME_HEIGHT * (100 - c.deadZoneThreshold)) \div 100

\* A super jump with the force of a normal one.
JumpForcePlain(isSuper, c) == c.recoilForce

JumpForce(isSuper, c) ==
  IF isSuper THEN TDiv(c.recoilForce * c.superJumpMultiplier, 100)
  ELSE c.recoilForce

\* Math.sqrt(dx * dx + dy * dy) || 1
JumpDist(dx, dy) ==
  LET d == ISqrt(dx * dx + dy * dy) IN IF d = 0 THEN 1 ELSE d

\* A recoil added to the velocity the player falls with.
RecoilAdded(d, dist, force) == player.vy + TDiv((-d) * force, dist)

\* -ux * force, with ux = dx / dist
Recoil(d, dist, force) == TDiv((-d) * force, dist)

\* A jump that forgets the fuel cost.
BurnNothing(fuel, consumption) == fuel

\* player.fuel -= config.fuelConsumption
BurnFuel(fuel, consumption) == fuel - consumption

PulseWidth(p, isSuper) ==
  p.width + (IF isSuper THEN SuperPulseExtra ELSE NormalPulseExtra)

NewPulse(px, py, w, isSuper) ==
  LET life == IF isSuper THEN SuperPulseLife ELSE NormalPulseLife
  IN [ x |-> px - w \div 2, y |-> py, width |-> w,
       life |-> life, maxLife |-> life, isSuper |-> isSuper ]

\* A pulse that takes the enemies of both sides.
PulseHitsAnySide(e, px, py, w, isSuper) ==
  /\ e.x + e.radius > px - w \div 2
  /\ e.x - e.radius < px + w \div 2
  /\ ~e.isDead

\* withinRayX && isAffected && !e.isDead
PulseHits(e, px, py, w, isSuper) ==
  /\ e.x + e.radius > px - w \div 2
  /\ e.x - e.radius < px + w \div 2
  /\ IF isSuper THEN e.y < py ELSE e.y > py
  /\ ~e.isDead

\* k eliminations by the pulse: triggerShockwave(px, py); playSound('kill')
RECURSIVE PulseKills(_, _, _, _, _)
PulseKills(k, st, px, py, c) ==
  IF k = 0 THEN st
  ELSE LET t == TriggerShockwave(st, px, py, 100, c)
       IN PulseKills(k - 1,
                     [t EXCEPT !.cues = Append(t.cues, "kill"),
                               !.snd = PlaySound(t.snd, "kill", c)],
                     px, py, c)

KillParticles(isSuper) ==
  [ n |-> IF isSuper THEN 20 ELSE 12, life |-> 25, maxLife |-> 25,
    color |-> IF isSuper THEN "YELLOW" ELSE "WHITE" ]

BurstParticles(isSuper, d) ==
  [ n |-> IF isSuper THEN 40 ELSE 20, life |-> 20 + d, maxLife |-> 40,
    color |-> IF isSuper THEN "ORANGE" ELSE "HOT_PINK" ]

\* A jump that passed the fuel check, aimed at the player's centre + off,
\* with the particle life draw d, ms milliseconds after the operation
\* before.  firstFault says that the playSound of the jump has thrown: the
\* jump ends there, with partial.
Jump(off, d, ms) ==
  LET c == cfg
      px == CenterX(player)
      py == CenterY(player)
      dist == JumpDist(off[1], off[2])
      isSuper == InDeadZone(player, c)
      force == JumpForce(isSuper, c)
      w == PulseWidth(player, isSuper)
      hit == { j \in DOMAIN enemies :
                 PulseHits(enemies[j], px, py, w, isSuper) }
      k == Cardinality(hit)
      cue == IF isSuper THEN "deadjump" ELSE "jump"
      snd1 == PlaySound(Sound(ms), cue, c)
      st == PulseKills(k,
                       [ sws |-> shockwaves, idc |-> shockwaveIdCounter,
                         cues |-> << cue >>, snd |-> snd1 ],
                       px, py, c)
  IN [ inv |-> IF isSuper THEN SuperInvincibility ELSE invincibilityFrames,
       player |-> [ player EXCEPT
                      !.vx = Recoil(off[1], dist, force),
                      !.vy = Recoil(off[2], dist, force),
                      !.fuel = IF k > 0 THEN player.maxFuel
                               ELSE BurnFuel(player.fuel, c.fuelConsumption),
                      !.flashTimer = IF k > 0 THEN KillFlash
                                     ELSE player.flashTimer ],
       pulses |-> Append(pulses, NewPulse(px, py, w, isSuper)),
       enemies |-> [ j \in DOMAIN enemies |->
                       IF j \in hit THEN [enemies[j] EXCEPT !.isDead = TRUE]
                       ELSE enemies[j] ],
       shockwaves |-> st.sws,
       shockwaveIdCounter |-> st.idc,
       cues |-> st.cues,
       snd |-> st.snd,
       particles |-> particles
                       \o [ j \in 1..k |-> KillParticles(isSuper) ]
                       \o << BurstParticles(isSuper, d) >>,
       shake |-> IF isSuper THEN SuperShake ELSE JumpShake,
       firstFault |-> snd1.fault,
       partial |-> [ shake |-> IF isSuper THEN SuperShake ELSE shake,
                     cues |-> << cue >>, snd |-> snd1 ] ]

\* executeJump, ms milliseconds after the operation before.  A jump in
\* which playSound throws after the cue of the jump is not followed.
ExecuteJump(off, d, ms) ==
  /\ jumps' = jumps + 1
  /\ waited' = ms
  /\ UNCHANGED << cfg, gameState, score, highScore, pendGameState,
                  pendScore, pendHighScore, effectsPending, gameStateRef,
                  updGameState, elapsedTime, enemyIdCounter, playTicks,
                  resets, stale, trigCfg, backend, loopRunning >>
  /\ IF ~CanJump(player.fuel, cfg.fuelConsumption)
     THEN \E snd \in { PlaySound(Sound(ms), "pulse", cfg) } :
             /\ lastOp' = "rejected"
             /\ shake' = RejectShake
             /\ cues' = <<"pulse">>
             /\ emitted' = snd.out
             /\ lastSoundPlayed' = snd.last
             /\ audioCtx' = snd.ctx
             /\ fault' = snd.fault
             /\ UNCHANGED << invincibilityFrames, player, enemies,
                             particles, pulses, shockwaves,
                             shockwaveIdCounter >>
     ELSE \E j \in { Jump(off, d, ms) } :
             /\ lastOp' = "jump"
             /\ invincibilityFrames' = j.inv
             /\ IF j.firstFault
                THEN /\ fault' = TRUE
                     /\ shake' = j.partial.shake
                     /\ cues' = j.partial.cues
                     /\ emitted' = j.partial.snd.out
                     /\ lastSoundPlayed' = j.partial.snd.last
                     /\ audioCtx' = j.partial.snd.ctx
                     /\ UNCHANGED << player, pulses, enemies, shockwaves,
                                     shockwaveIdCounter, particles >>
                ELSE /\ ~j.snd.fault
                     /\ fault' = FALSE
                     /\ player' = j.player
                     /\ pulses' = j.pulses
                     /\ enemies' = j.enemies
                     /\ shockwaves' = j.shockwaves
                     /\ shockwaveIdCounter' = j.shockwaveIdCounter
                     /\ cues' = j.cues
                     /\ emitted' = j.snd.out
                     /\ lastSoundPlayed' = j.snd.last
                     /\ audioCtx' = j.snd.ctx
                     /\ particles' = j.particles
                     /\ shake' = j.shake

(***************************************************************************)
(* The effects of a committed render: gameStateRef.current = gameState, the *)
(* loop restarted with the new update closure, and the high-score effect.   *)
(***************************************************************************)
\* The effect without its comparison.
HighScoreAlways(pend, sc, hs) == SetState(pend, hs, sc)

\* if (score > highScore) setHighScore(score)
HighScoreEffect(pend, sc, hs) ==
  IF sc > hs THEN SetState(pend, hs, sc) ELSE pend

\* pendHighScore once the effects waiting (if any) have run
FlushedHighScore ==
  IF effectsPending THEN HighScoreEffect(pendHighScore, score, highScore)
  ELSE pendHighScore

(***************************************************************************)
(* resetGame, called from the input handler.  Its setScore(0) and           *)
(* setGameState(PLAYING) come from a discrete input event: React renders    *)
(* them and runs the effects of that render before the handler's task ends, *)
(* after running the effects that were still waiting.  Values queued by an  *)
(* earlier tick are older in the hooks' queues and are overwritten.         *)
(***************************************************************************)
\* A reset that keeps the player's velocity.
ResetKeepsVelocity(c) ==
  [ InitialPlayer(c) EXCEPT !.vx = player.vx, !.vy = player.vy ]

\* playerRef.current = { ... } of resetGame
ResetPlayer(c) == InitialPlayer(c)

ResetScore == 0

\* A reset that leaves the elapsed time running.
ResetKeepsElapsed == elapsedTime

ResetElapsed == 0

\* The reset's render and its effects restart the loop; playSound is the
\* last statement of resetGame.
ResetGame(cap, ms) ==
  /\ resets < cap
  /\ waited' = ms
  /\ loopRunning' = TRUE
  /\ \E snd \in { IF cfg.audioEnabled THEN PlaySound(Sound(ms), "pulse", cfg)
                   ELSE Sound(ms) } :
        /\ emitted' = snd.out
        /\ lastSoundPlayed' = snd.last
        /\ audioCtx' = snd.ctx
        /\ fault' = snd.fault
  /\ stale' = 0
  /\ resets' = resets + 1
  /\ lastOp' = "reset"
  /\ player' = ResetPlayer(cfg)
  /\ enemies' = <<>>
  /\ particles' = <<>>
  /\ pulses' = <<>>
  /\ shockwaves' = <<>>
  /\ shake' = 0
  /\ elapsedTime' = ResetElapsed
  /\ invincibilityFrames' = 0
  /\ score' = ResetScore
  /\ gameState' = PLAYING
  /\ pendScore' = <<>>
  /\ pendGameState' = <<>>
  /\ pendHighScore' = HighScoreEffect(FlushedHighScore, ResetScore, highScore)
  /\ effectsPending' = FALSE
  /\ gameStateRef' = PLAYING
  /\ updGameState' = PLAYING
  /\ cues' = IF cfg.audioEnabled THEN <<"pulse">> ELSE <<>>
  /\ playTicks' = 0
  /\ UNCHANGED << cfg, highScore, enemyIdCounter, shockwaveIdCounter, jumps,
                  trigCfg, backend >>

\* An interaction the handler returns from at once.
Ignored == UNCHANGED vars

\* gameStateRef.current !== GameState.PLAYING
NotPlaying(ref) == ref # PLAYING

\* handleGlobalInteraction for a mousedown or touchstart: over is
\* isMouseOverRef.current, touch says the event is a touch, inside says the
\* touch lies in the canvas; offsets are the pointer targets, relative to the
\* player's centre; at most cap calls of executeJump and resetCap calls of
\* resetGame; the event comes some ms of waits after the operation before.
Interaction(cap, resetCap, offsets, waits) ==
  \E over \in BOOLEAN, touch \in BOOLEAN, inside \in BOOLEAN, ms \in waits :
    IF ~over /\ ~touch THEN Ignored
    ELSE IF NotPlaying(gameStateRef)
         THEN IF gameStateRef = START \/ gameStateRef = GAMEOVER
              THEN ResetGame(resetCap, ms)
              ELSE Ignored
         ELSE IF touch /\ ~inside THEN Ignored
              ELSE /\ jumps < cap
                   /\ \E off \in offsets, d \in ParticleLifeDraws :
                        ExecuteJump(off, d, ms)

(***************************************************************************)
(* React renders the values the ticks queued (setScore, setGameState) and   *)
(* the high-score effect queued (setHighScore), in a task of its own after  *)
(* the frame that queued them; effects still waiting run first.             *)
(***************************************************************************)
Render ==
  /\ pendGameState # <<>> \/ pendScore # <<>> \/ FlushedHighScore # <<>>
  /\ gameState' = Rendered(pendGameState, gameState)
  /\ score' = Rendered(pendScore, score)
  /\ highScore' = Rendered(FlushedHighScore, highScore)
  /\ pendGameState' = <<>>
  /\ pendScore' = <<>>
  /\ pendHighScore' = <<>>
  /\ gameStateRef' = IF effectsPending THEN gameState ELSE gameStateRef
  /\ updGameState' = IF effectsPending THEN gameState ELSE updGameState
  /\ effectsPending' = TRUE
  /\ stale' = 0
  /\ lastOp' = "render"
  /\ cues' = <<>>
  /\ emitted' = <<>>
  /\ fault' = FALSE
  /\ loopRunning' = (loopRunning \/ effectsPending)
  /\ UNCHANGED << cfg, elapsedTime, invincibilityFrames, player, enemies,
                  particles, pulses, shockwaves, shake, enemyIdCounter,
                  shockwaveIdCounter, playTicks, jumps, resets, trigCfg,
                  lastSoundPlayed, audioCtx, backend, waited >>

\* The effects of the last render, in a later task.
RunEffects ==
  /\ effectsPending
  /\ effectsPending' = FALSE
  /\ stale' = 0
  /\ gameStateRef' = gameState
  /\ updGameState' = gameState
  /\ pendHighScore' = FlushedHighScore
  /\ lastOp' = "effects"
  /\ cues' = <<>>
  /\ emitted' = <<>>
  /\ fault' = FALSE
  /\ loopRunning' = TRUE
  /\ UNCHANGED << cfg, gameState, score, highScore, pendGameState, pendScore,
                  elapsedTime, invincibilityFrames, player, enemies,
                  particles, pulses, shockwaves, shake, enemyIdCounter,
                  shockwaveIdCounter, playTicks, jumps, resets, trigCfg,
                  lastSoundPlayed, audioCtx, backend, waited >>

(***************************************************************************)
(* handleChange('audioEnabled', e.target.checked) of App.tsx, from the      *)
(* checkbox of the tuning panel: a discrete input event, so React renders   *)
(* Game with the new config and runs the effects of that render before the  *)
(* handler's task ends, after the effects that were still waiting.  The     *)
(* loop is restarted with the new update; triggerShockwave is not created   *)
(* again.  Values queued by ticks wait for their own render.                *)
(***************************************************************************)
ToggleAudio ==
  /\ cfg' = [ cfg EXCEPT !.audioEnabled = ~cfg.audioEnabled ]
  /\ effectsPending' = FALSE
  /\ gameStateRef' = gameState
  /\ updGameState' = gameState
  /\ pendHighScore' = FlushedHighScore
  /\ loopRunning' = TRUE
  /\ lastOp' = "config"
  /\ cues' = <<>>
  /\ emitted' = <<>>
  /\ fault' = FALSE
  /\ UNCHANGED << gameState, score, highScore, pendGameState, pendScore,
                  elapsedTime, invincibilityFrames, player, enemies,
                  particles, pulses, shockwaves, shake, enemyIdCounter,
                  shockwaveIdCounter, playTicks, jumps, resets, stale,
                  trigCfg, lastSoundPlayed, audioCtx, backend, waited >>

(***************************************************************************)
(* The state after the component is mounted, and the specifications.        *)
(***************************************************************************)
MountedWith(configs, backends) ==
  /\ cfg \in configs
  /\ gameState = START
  /\ score = 0
  /\ highScore = 0
  /\ pendGameState = <<>>
  /\ pendScore = <<>>
  /\ pendHighScore = <<>>
  /\ effectsPending = FALSE
  /\ gameStateRef = START
  /\ updGameState = START
  /\ elapsedTime = 0
  /\ invincibilityFrames = 0
  /\ player = InitialPlayer(cfg)
  /\ enemies = <<>>
  /\ particles = <<>>
  /\ pulses = <<>>
  /\ shockwaves = <<>>
  /\ shake = 0
  /\ enemyIdCounter = 0
  /\ shockwaveIdCounter = 0
  /\ cues = <<>>
  /\ lastOp = "mount"
  /\ playTicks = 0
  /\ jumps = 0
  /\ resets = 0
  /\ stale = 0
  /\ trigCfg = cfg
  /\ lastSoundPlayed = [ ty \in CueTypes |-> Expired ]
  /\ audioCtx = FALSE
  /\ backend \in backends
  /\ loopRunning = TRUE
  /\ emitted = <<>>
  /\ fault = FALSE
  /\ waited = 0

\* Mounted in a browser that has an AudioContext.
Mounted(configs) == MountedWith(configs, {TRUE})

Init == Mounted(ArenaConfigs)

Next ==
  \/ Tick(MaxTicks, SpawnXDraws, FrameWaits)
  \/ Interaction(MaxJumps, MaxResets, JumpOffsets, FrameWaits)
  \/ Render
  \/ RunEffects

Spec == Init /\ [][Next]_vars

InitScore == Mounted(ScoreConfigs)

NextScore ==
  \/ Tick(MaxScoreTicks, SpawnXDraws, FrameWaits)
  \/ Interaction(MaxScoreJumps, MaxScoreResets, JumpOffsets, FrameWaits)
  \/ Render
  \/ RunEffects

SpecScore == InitScore /\ [][NextScore]_vars

InitTop == Mounted(TopConfigs)

SpecTop == InitTop /\ [][Next]_vars

InitWall == Mounted(WallConfigs)

NextWall ==
  \/ Tick(MaxTicks, SpawnXDraws, FrameWaits)
  \/ Interaction(MaxJumps, MaxResets, WallOffsets, FrameWaits)
  \/ Render
  \/ RunEffects

SpecWall == InitWall /\ [][NextWall]_vars

\* A session of the hovering player left alone for t ticks after its reset,
\* every render and effect done.
Hovering(configs, starts) ==
  /\ cfg \in configs
  /\ elapsedTime \in starts
  /\ gameState = PLAYING
  /\ score = ScoreOf(elapsedTime)
  /\ highScore = ScoreOf(elapsedTime)
  /\ pendGameState = <<>>
  /\ pendScore = <<>>
  /\ pendHighScore = <<>>
  /\ effectsPending = FALSE
  /\ gameStateRef = PLAYING
  /\ updGameState = PLAYING
  /\ invincibilityFrames = 0
  /\ player = InitialPlayer(cfg)
  /\ enemies = <<>>
  /\ particles = <<>>
  /\ pulses = <<>>
  /\ shockwaves = <<>>
  /\ shake = 0
  /\ enemyIdCounter = 0
  /\ shockwaveIdCounter = 0
  /\ cues = <<>>
  /\ lastOp = "tick"
  /\ playTicks = elapsedTime
  /\ jumps = 0
  /\ resets = 1
  /\ stale = 0
  /\ trigCfg = cfg
  /\ lastSoundPlayed = [ ty \in CueTypes |-> Expired ]
  /\ audioCtx = AudioOn(cfg)
  /\ backend = TRUE
  /\ loopRunning = TRUE
  /\ emitted = <<>>
  /\ fault = FALSE
  /\ waited \in FrameWaits

InitCurve == Hovering(CurveConfigs, CurveStarts)

\* MaxCurveTicks frames from each start.
NextCurve ==
  \/ /\ (elapsedTime + 2) % 600 < MaxCurveTicks
     /\ Tick(7800 + MaxCurveTicks, SpawnXDraws, FrameWaits)
  \/ Interaction(MaxScoreJumps, MaxScoreResets, JumpOffsets, FrameWaits)
  \/ Render
  \/ RunEffects

SpecCurve == InitCurve /\ [][NextCurve]_vars

\* Operations within a throttle window of each other, and the audio switch.
InitAudio == Mounted(AudioConfigs)

NextAudio ==
  \/ Tick(MaxAudioTicks, SpawnXDraws, AudioWaits)
  \/ Interaction(MaxAudioJumps, MaxAudioResets, JumpOffsets, AudioWaits)
  \/ Render
  \/ RunEffects
  \/ ToggleAudio

SpecAudio == InitAudio /\ [][NextAudio]_vars

\* A browser without an AudioContext: new (window.AudioContext ||
\* window.webkitAudioContext)() throws.
InitMute == MountedWith(MuteConfigs, {FALSE})

NextMute ==
  \/ Tick(MaxAudioTicks, SpawnXDraws, AudioWaits)
  \/ Interaction(MaxAudioJumps, MaxResets, JumpOffsets, AudioWaits)
  \/ Render
  \/ RunEffects

SpecMute == InitMute /\ [][NextMute]_vars

InitBadCurve == Mounted(BadCurveConfigs)

SpecBadCurve == InitBadCurve /\ [][Next]_vars

InitEdge == Mounted(EdgeConfigs)

NextEdge ==
  \/ Tick(MaxEdgeTicks, EdgeXDraws, FrameWaits)
  \/ Interaction(MaxScoreJumps, MaxScoreResets, WallOffsets, FrameWaits)
  \/ Render
  \/ RunEffects

SpecEdge == InitEdge /\ [][NextEdge]_vars

InitBurn == Mounted(BurnConfigs)

SpecBurn == InitBurn /\ [][Next]_vars

\* Sessions long enough for a pulse to expire and for the invincibility of a
\* super jump to run out.
InitLong == Mounted(LongConfigs)

NextLong ==
  \/ Tick(MaxLongTicks, SpawnXDraws, FrameWaits)
  \/ Interaction(MaxScoreJumps, MaxScoreResets, JumpOffsets, FrameWaits)
  \/ Render
  \/ RunEffects

SpecLong == InitLong /\ [][NextLong]_vars

\* Sessions long enough for an enemy to fall through the field.
InitFall == Mounted(FallConfigs)

NextFall ==
  \/ Tick(MaxFallTicks, FallXDraws, FrameWaits)
  \/ Interaction(MaxScoreJumps, MaxScoreResets, JumpOffsets, FrameWaits)
  \/ Render
  \/ RunEffects

SpecFall == InitFall /\ [][NextFall]_vars

InitCold == Mounted(ColdConfigs)

SpecCold == InitCold /\ [][Next]_vars

InitHigh == Mounted(HighConfigs)

NextHigh ==
  \/ Tick(MaxHighTicks, SpawnXDraws, FrameWaits)
  \/ Interaction(MaxScoreJumps, MaxResets, JumpOffsets, FrameWaits)
  \/ Render
  \/ RunEffects

SpecHigh == InitHigh /\ [][NextHigh]_vars

(***************************************************************************)
(* The steps of a behaviour, recognised from the variables.                 *)
(***************************************************************************)
\* update() ran (with or without passing its gate)
FrameStep == elapsedTime' = elapsedTime + 1 /\ lastOp' \in {"tick", "idle"}

\* executeJump was called
JumpStep == jumps' = jumps + 1

\* resetGame was called
ResetStep == resets' = resets + 1

\* executeJump passed its fuel check
JumpDone == JumpStep /\ lastOp' = "jump"

\* update() ran past its gate
PlayStep == FrameStep /\ lastOp' = "tick"

\* enemy i of the collection was marked dead by the pulse of this jump
PulseKilled(i) == ~enemies[i].isDead /\ enemies'[i].isDead

\* enemy i of the collection, live before this tick and not past the pruning
\* margin after its move, is gone after the tick: a shockwave marked it dead
ShockwaveKilled(i) ==
  /\ ~enemies[i].isDead
  /\ enemies[i].y + enemies[i].speed < 65000
  /\ \A j \in DOMAIN enemies' : enemies'[j].id # enemies[i].id

\* The value a state hook holds once its queued value is rendered.
GameStateAhead == Rendered(pendGameState, gameState)

(***************************************************************************)
(* C1.  The game state changes only along START -> PLAYING,                 *)
(* PLAYING -> GAMEOVER and GAMEOVER -> PLAYING: START is never re-entered,  *)
(* START never goes to GAMEOVER, PLAYING is left only towards GAMEOVER.     *)
(***************************************************************************)
C1_Transitions ==
  [][ gameState' # gameState =>
        << gameState, gameState' >> \in
          { << START, PLAYING >>, << PLAYING, GAMEOVER >>,
            << GAMEOVER, PLAYING >> } ]_vars

\* A second session is being played: all three transitions have happened.
C1_Witness == gameState = PLAYING /\ resets = 2 /\ lastOp = "tick"

C3_Near(ex, ey, er) ==
  LET dx == ex - (player.x + player.width \div 2)
      dy == ey - (player.y + player.height \div 2)
      r == er + player.width \div 2 - 200
  IN /\ r > 0
     /\ (IF dx < 0 THEN -dx ELSE dx) < r
     /\ (IF dy < 0 THEN -dy ELSE dy) < r
     /\ dx * dx + dy * dy < r * r

C3_Lethal ==
  \/ player'.y > 60000
  \/ /\ invincibilityFrames' <= 0
     /\ \/ \E i \in DOMAIN enemies :
             C3_Near(enemies[i].x, enemies[i].y + enemies[i].speed,
                     enemies[i].radius)
        \/ \E i \in DOMAIN enemies' :
             /\ enemies'[i].id >= enemyIdCounter
             /\ C3_Near(enemies'[i].x, enemies'[i].y, enemies'[i].radius)

C4_GameOverTicksAreNoOps ==
  [][ (gameState = GAMEOVER /\ FrameStep) =>
        UNCHANGED << player, invincibilityFrames, enemies, particles, pulses,
                     shockwaves, enemyIdCounter >> ]_vars

(***************************************************************************)
(* C5.  The score freezes at the transition to GAMEOVER: while the state    *)
(* stays GAMEOVER the score keeps the value it had when the state became    *)
(* GAMEOVER.                                                                *)
(***************************************************************************)
C5_ScoreFrozen ==
  [][ (gameState = GAMEOVER /\ gameState' = GAMEOVER) => score' = score ]_vars

(***************************************************************************)
(* C6.  Fuel invariant: 0 <= player.fuel <= player.maxFuel in every         *)
(* reachable state; regeneration never overshoots maxFuel.                  *)
(***************************************************************************)
C6_FuelInvariant == 0 <= player.fuel /\ player.fuel <= player.maxFuel

\* Regeneration alone (no kill ever refilled the fuel) brought the fuel back
\* to maxFuel after a jump.
C6_Witness ==
  /\ lastOp = "tick" /\ jumps > 0 /\ shockwaveIdCounter = 0
  /\ player.fuel = player.maxFuel

(***************************************************************************)
(* C7.  A successful jump decreases fuel by exactly fuelConsumption, for    *)
(* every enemy configuration.                                               *)
(***************************************************************************)
C7_JumpBurnsExactly ==
  [][ (JumpStep /\ player.fuel >= cfg.fuelConsumption) =>
        player'.fuel = player.fuel - cfg.fuelConsumption ]_vars

\* C7 as amended: a successful jump that eliminates no enemy decreases fuel
\* by exactly fuelConsumption; one that eliminates an enemy leaves
\* fuel = maxFuel.
C7_JumpBurnsUnlessKill ==
  [][ (JumpStep /\ player.fuel >= cfg.fuelConsumption) =>
        IF \E i \in DOMAIN enemies : enemies'[i].isDead /\ ~enemies[i].isDead
        THEN player'.fuel = player.maxFuel
        ELSE player'.fuel = player.fuel - cfg.fuelConsumption ]_vars

\* A jump with enemies on the field that eliminated none of them.
C7_Witness ==
  /\ lastOp = "jump" /\ enemies # <<>>
  /\ \A i \in DOMAIN enemies : ~enemies[i].isDead
  /\ player.fuel < player.maxFuel

(***************************************************************************)
(* C8.  A jump attempted with player.fuel < fuelConsumption is rejected:    *)
(* nothing changes but the camera shake (intensity 5) and a 'pulse' cue.    *)
(***************************************************************************)
C8_RejectedJump ==
  [][ (JumpStep /\ player.fuel < cfg.fuelConsumption) =>
        /\ shake' = 500
        /\ cues' = << "pulse" >>
        /\ UNCHANGED << player, invincibilityFrames, enemies, pulses,
                        particles, shockwaves, gameState, score, highScore,
                        pendGameState, pendScore, pendHighScore, elapsedTime,
                        enemyIdCounter, shockwaveIdCounter >> ]_vars

C8_Witness == lastOp = "rejected" /\ player.fuel < cfg.fuelConsumption

(***************************************************************************)
(* C9.  A jump is executed only while the game state is PLAYING: an         *)
(* interaction that arrives in START or GAMEOVER never changes the player's *)
(* velocity or fuel, creates no pulse and eliminates no enemy; it can only  *)
(* trigger a reset.                                                         *)
(***************************************************************************)
C9_JumpOnlyWhilePlaying ==
  [][ (gameState # PLAYING /\ (JumpStep \/ ResetStep)) =>
        \/ ResetStep
        \/ /\ player'.vx = player.vx /\ player'.vy = player.vy
           /\ player'.fuel = player.fuel
           /\ pulses' = pulses
           /\ enemies' = enemies ]_vars

(***************************************************************************)
(* C10.  While PLAYING the score is floor(k/60)*10, k being the number of   *)
(* PLAYING ticks run since the last reset; after 180 such ticks it is 30.   *)
(* The score is the value the score hook holds after the tick's setScore.   *)
(***************************************************************************)
C10_ScoreFormula ==
  gameState = PLAYING =>
    Rendered(pendScore, score) = (playTicks \div 60) * 10

C10_Witness ==
  gameState = PLAYING /\ playTicks = 180 /\ score = 30 /\ pendScore = <<>>

(***************************************************************************)
(* C11.  The high score is the running maximum of the scores observed: it  *)
(* never decreases, a reset does not change it, and once nothing waits to  *)
(* be rendered and no effect waits to run, highScore >= score.             *)
(***************************************************************************)
C11_HighScoreRunningMax ==
  [][ /\ highScore' >= highScore
      /\ ResetStep => highScore' = highScore
      /\ ~Waiting' => highScore' >= score' ]_vars

\* A reset after a session that set a high score.
C11_Witness ==
  /\ lastOp = "reset" /\ resets = 2
  /\ highScore > 0 /\ score = 0 /\ ~Waiting

C13_Reached ==
  { i \in DOMAIN enemies :
      /\ ~enemies[i].isDead
      /\ \E k \in DOMAIN shockwaves :
           InReach(AdvanceShockwave(shockwaves[k], CenterX(player),
                                    CenterY(player)),
                   enemies[i]) }

C13_Chained ==
  { k \in DOMAIN shockwaves' : shockwaves'[k].id >= shockwaveIdCounter }

C13_ChainElimination ==
  [][ PlayStep =>
        /\ \A i \in C13_Reached :
             \A j \in DOMAIN enemies' : enemies'[j].id # enemies[i].id
        /\ Cardinality(C13_Chained) = Cardinality(C13_Reached)
        /\ shockwaveIdCounter' = shockwaveIdCounter + Cardinality(C13_Reached)
        /\ \A k \in C13_Chained :
             /\ shockwaves'[k].maxRadius = (cfg.burningRadius * 8) \div 10
             /\ shockwaves'[k].radius = 0
             /\ shockwaves'[k].life = cfg.burningDuration
             /\ shockwaves'[k].maxLife = cfg.burningDuration ]_vars

\* A tick in which a shockwave eliminated an enemy: the chained shockwave is
\* in the collection.
C13_Witness ==
  /\ lastOp = "tick"
  /\ \E k \in DOMAIN shockwaves :
       /\ shockwaves[k].radius = 0
       /\ shockwaves[k].maxRadius = (cfg.burningRadius * 8) \div 10
       /\ shockwaves[k].id = shockwaveIdCounter - 1

(***************************************************************************)
(* C14.  Idempotent pruning: an enemy marked dead during tick N, by a      *)
(* pulse at jump time or by a shockwave, never appears in the enemy        *)
(* collection the next frame draws, in any game state and for any          *)
(* interleaving of jumps, ticks and state transitions.                     *)
(***************************************************************************)
C14_DeadNeverDrawn ==
  [][ FrameStep =>
        \A i \in DOMAIN Drawn(updGameState', enemies') :
          ~Drawn(updGameState', enemies')[i].isDead ]_vars

(***************************************************************************)
(* C15.  Lethal contact is evaluated only against live enemies: a tick     *)
(* that asks for GAMEOVER without the player having fallen past the bottom *)
(* has a live enemy in contact, one that was not marked dead by a pulse    *)
(* before the tick nor by a shockwave earlier in the tick.                 *)
(***************************************************************************)
C15_LiveContact ==
  \/ \E i \in DOMAIN enemies :
       /\ ~enemies[i].isDead
       /\ ~ShockwaveKilled(i)
       /\ C3_Near(enemies[i].x, enemies[i].y + enemies[i].speed,
                  enemies[i].radius)
  \/ \E j \in DOMAIN enemies' :
       /\ enemies'[j].id >= enemyIdCounter
       /\ C3_Near(enemies'[j].x, enemies'[j].y, enemies'[j].radius)

C15_ContactOnlyWithLive ==
  [][ ( /\ PlayStep
        /\ GameStateAhead # GAMEOVER
        /\ GameStateAhead' = GAMEOVER
        /\ player'.y <= 60000 ) => C15_LiveContact ]_vars

(***************************************************************************)
(* C16.  Wall bounce velocity: when a PLAYING tick carries the player past *)
(* the left or right wall with incoming horizontal velocity v (the         *)
(* velocity with which the tick moved the player) and bounceElasticity e,  *)
(* the horizontal velocity after the tick is exactly -v*e.                 *)
(***************************************************************************)
C16_PastWall ==
  \/ player.x + player.vx < 0
  \/ player.x + player.vx > 40000 - player.width

C16_BounceVelocity ==
  [][ (PlayStep /\ C16_PastWall) =>
        player'.vx = TDiv(-(player.vx * cfg.bounceElasticity), 100) ]_vars

\* C16 as amended: the velocity after the tick is exactly -(v*a)*e, a being
\* the air resistance factor the tick applies to the horizontal velocity
\* between the move and the wall test.
C16_BounceAfterAirResistance ==
  [][ (PlayStep /\ C16_PastWall) =>
        player'.vx =
          TDiv(-(TDiv(player.vx * AIR_RESISTANCE, 100) * cfg.bounceElasticity),
               100) ]_vars

\* The player has bounced off the right wall.
C16_Witness ==
  /\ lastOp = "tick" /\ player.x = GAME_WIDTH - player.width
  /\ player.vx < 0

(***************************************************************************)
(* C17.  Horizontal clamp: after every PLAYING tick                        *)
(* 0 <= player.x <= GAME_WIDTH - player.width, whatever the velocity and   *)
(* bounceElasticity were.                                                  *)
(***************************************************************************)
C17_HorizontalClamp ==
  lastOp = "tick" => 0 <= player.x /\ player.x <= 40000 - player.width

\* The player has been clamped at the left wall.
C17_Witness == lastOp = "tick" /\ player.x = 0 /\ player.vx > 0

(***************************************************************************)
(* C18.  Spawn curve sampling is piecewise-linear interpolation of the     *)
(* control points: for a curve of n+1 >= 2 points sampled at phase t in    *)
(* [0,1), with i = floor(t*n) and f = t*n - i, the indices i and i+1 are   *)
(* within the curve and curveValue = points[i]*(1-f) + points[i+1]*f; with *)
(* spawnCurve = [0,1] and t = 0.5 the curveValue is 0.5.  The phase of     *)
(* tick k is (k mod 7200)/7200 and sequences are indexed from 1.           *)
(***************************************************************************)
C18_CurveIsLinearInterpolation ==
  lastOp = "tick" =>
    LET points == cfg.spawnCurve
        n == Len(points) - 1
        tn == (elapsedTime % 7200) * n
        i == tn \div 7200
        f == tn % 7200
    IN /\ 0 <= i /\ i + 1 <= n
       /\ CurveValue(elapsedTime, points)
            = (points[i + 1] * (7200 - f) + points[i + 2] * f) \div 7200
       /\ (points = << 0, 10000 >> /\ elapsedTime % 7200 = 3600)
            => CurveValue(elapsedTime, points) = 5000

\* The tick at the middle of the cycle with the curve [0, 1].
C18_Witness ==
  /\ lastOp = "tick" /\ cfg.spawnCurve = << 0, 10000 >>
  /\ elapsedTime = 3600

(***************************************************************************)
(* C19.  Fuel is refilled fully on any kill: whenever an enemy is          *)
(* eliminated, by a pulse or by a shockwave, player.fuel = maxFuel right   *)
(* after the elimination.                                                  *)
(***************************************************************************)
C19_FuelFullAfterKill ==
  [][ ( \/ JumpDone /\ \E i \in DOMAIN enemies : PulseKilled(i)
        \/ PlayStep /\ \E i \in DOMAIN enemies : ShockwaveKilled(i) )
        => player'.fuel = player'.maxFuel ]_vars

TimedStep == lastOp' \in {"tick", "idle", "jump", "rejected", "reset"}

Count(seq, ty) == Cardinality({ i \in DOMAIN seq : seq[i] = ty })

\* Every playSound of the operation comes from a render with the audio on.
AllAudible == AudioOn(cfg) /\ AudioOn(trigCfg)

C22_SoundNeverFaults == ~fault /\ loopRunning

\* C27: with the audio disabled (audioEnabled false or sfxVolume <= 0) a cue
\* call does nothing: an operation run under such a config plays no cue and
\* stamps no cue type, so the table only ages.
C27_DisabledIsSilent ==
  [][ (TimedStep /\ ~AudioOn(cfg)) =>
        /\ emitted' = <<>>
        /\ \A ty \in CueTypes :
             lastSoundPlayed'[ty] =
               Min(KillThrottle, lastSoundPlayed[ty] + waited') ]_vars

(***************************************************************************)
(* Claims about the spawn director.                                         *)
(***************************************************************************)
\* C23: a config whose spawn curve has fewer than two control points is
\* refused by the tick that reads it: under such a config no PLAYING tick
\* runs to its end.
C23_MalformedCurveStopsTick == Len(cfg.spawnCurve) < 2 => lastOp # "tick"

\* The enemy of enemies' that the step has spawned, if any: ids are given in
\* spawn order, from enemyIdCounter on.
SpawnedIn(es) == { j \in DOMAIN es : es[j].id >= enemyIdCounter }

\* C24: every enemy a tick spawns lies at least 60 units to the left or to
\* the right of the centre the player has when the tick starts, and between
\* 20 and GAME_WIDTH - 20.
C24_SpawnOutsideExclusion ==
  [][ PlayStep =>
        \A j \in SpawnedIn(enemies') :
          /\ Abs(enemies'[j].x - CenterX(player)) >= SpawnExclusion
          /\ enemies'[j].x >= SpawnMargin
          /\ enemies'[j].x <= GAME_WIDTH - SpawnMargin ]_vars

\* C25: enemy ids are unique and increase in spawn order, resets included.
\* The id counter never goes back; an enemy whose id was not in the
\* collection before the step has the value of the counter as its id, and the
\* counter has moved past it; the collection holds its enemies in the order
\* of their ids.
C25_EnemyIdsIncrease ==
  [][ /\ enemyIdCounter' >= enemyIdCounter
      /\ \A j \in DOMAIN enemies' :
           (\A i \in DOMAIN enemies : enemies[i].id # enemies'[j].id) =>
             /\ enemies'[j].id = enemyIdCounter
             /\ enemyIdCounter' > enemyIdCounter
      /\ \A i, j \in DOMAIN enemies' :
           i < j => enemies'[i].id < enemies'[j].id ]_vars

\* The first tick of the second session spawns the enemy with id 1.
C25_Witness ==
  /\ resets = 2
  /\ playTicks = 1
  /\ lastOp = "tick"
  /\ enemyIdCounter = 2
  /\ Len(enemies) = 1
  /\ enemies[1].id = 1

(***************************************************************************)
(* Claims about pulses and shockwaves.                                      *)
(***************************************************************************)
\* enemy e lies in the horizontal band of pulse pl, on the side pl affects
C26_InBand(e, pl) ==
  /\ e.x + e.radius > pl.x
  /\ e.x - e.radius < pl.x + pl.width
  /\ IF pl.isSuper THEN e.y < pl.y ELSE e.y > pl.y

\* C26: a pulse eliminates enemies in its pass at the jump and never after.
\* In a tick that leaves a pulse alive every enemy that was live, that no
\* shockwave reaches and that stays above the pruning margin is live in the
\* collection after the tick, and so is the enemy the tick spawns, whether or
\* not they lie in the band of the pulse.
C26_PulseIsOneShot ==
  [][ (PlayStep /\ pulses' # <<>>) =>
        /\ \A i \in DOMAIN enemies :
             ( /\ ~enemies[i].isDead
               /\ i \notin C13_Reached
               /\ enemies[i].y + enemies[i].speed < GAME_HEIGHT + PruneMargin )
             => \E j \in DOMAIN enemies' :
                  /\ enemies'[j].id = enemies[i].id
                  /\ ~enemies'[j].isDead
        /\ enemyIdCounter' > enemyIdCounter =>
             \E j \in DOMAIN enemies' :
               /\ enemies'[j].id = enemyIdCounter
               /\ ~enemies'[j].isDead ]_vars

\* After a tick a live enemy lies in the band of a live pulse, on the side
\* the pulse affects.
C26_Witness ==
  /\ lastOp = "tick"
  /\ \E j \in DOMAIN enemies, k \in DOMAIN pulses :
       /\ ~enemies[j].isDead
       /\ pulses[k].life > 0
       /\ C26_InBand(enemies[j], pulses[k])

\* Math.sqrt(vx * vx + vy * vy), rounded down
C28_Speed(p) == ISqrt(p.vx * p.vx + p.vy * p.vy)

\* C28: a jump that passes the fuel check is a super jump exactly when
\* deadJumpEnabled holds and player.y + player.height lies below
\* GAME_HEIGHT * (1 - deadZoneThreshold).  A super jump recoils with
\* recoilForce * superJumpMultiplier, sets invincibilityFrames to 15 and
\* pushes a pulse with isSuper, life 15 and width player.width + 30; any
\* other jump recoils with recoilForce, leaves invincibilityFrames alone and
\* pushes a pulse without isSuper, with life 8 and width player.width + 10.
\* (The recoil is zero when the pointer is on the player's centre.)
C28_SuperJumpBranch ==
  [][ JumpDone =>
        LET super == /\ cfg.deadJumpEnabled
                     /\ (player.y + player.height) * 100
                          > GAME_HEIGHT * (100 - cfg.deadZoneThreshold)
            force == IF super
                     THEN (cfg.recoilForce * cfg.superJumpMultiplier) \div 100
                     ELSE cfg.recoilForce
            pl == pulses'[Len(pulses')]
        IN /\ Len(pulses') = Len(pulses) + 1
           /\ C28_Speed(player') \in {0, force}
           /\ invincibilityFrames' =
                (IF super THEN SuperInvincibility ELSE invincibilityFrames)
           /\ pl.isSuper = super
           /\ pl.life = (IF super THEN SuperPulseLife ELSE NormalPulseLife)
           /\ pl.width = player.width
                           + (IF super THEN SuperPulseExtra
                              ELSE NormalPulseExtra) ]_vars

\* A normal jump from the start position and, a tick later, a super jump from
\* the dead zone that recoils with three times the force.
C28_Witness ==
  /\ lastOp = "jump"
  /\ Len(pulses) = 2
  /\ ~pulses[1].isSuper
  /\ pulses[2].isSuper
  /\ invincibilityFrames = SuperInvincibility
  /\ player.vy = -3 * cfg.recoilForce

\* C29: shockwaves are anchored to the player.  After a PLAYING tick every
\* shockwave the tick has processed (the ones that were in the collection
\* when it started) lies on the centre the player has after the tick's
\* movement.
C29_ShockwaveOnPlayer ==
  [][ PlayStep =>
        \A k \in DOMAIN shockwaves' :
          shockwaves'[k].id < shockwaveIdCounter =>
            /\ shockwaves'[k].x = CenterX(player')
            /\ shockwaves'[k].y = CenterY(player') ]_vars

\* Shockwave k of the collection is in the collection after the step, as n.
C30_Same(k, n) == shockwaves'[n].id = shockwaves[k].id

\* Shockwave k of the collection is removed by the step.
C30_Removed(k) == \A n \in DOMAIN shockwaves' : ~C30_Same(k, n)

\* C30 as claimed: the radius of a shockwave never decreases from one tick
\* to the next, and it is maxRadius in the last tick before the shockwave
\* is removed.
C30_RadiusGrowsToMax ==
  [][ PlayStep =>
        \A k \in DOMAIN shockwaves :
          /\ \A n \in DOMAIN shockwaves' :
               C30_Same(k, n) => shockwaves'[n].radius >= shockwaves[k].radius
          /\ C30_Removed(k) =>
               shockwaves[k].radius = shockwaves[k].maxRadius ]_vars

\* C30, amended: the radius grows from 0 to maxRadius over the first half of
\* the lifetime and shrinks again over the second half.  It is 0 at creation
\* and never above maxRadius; from tick to tick it is non-decreasing while
\* life >= maxLife / 2 after the tick and non-increasing once
\* life <= maxLife / 2 before the tick; it is maxRadius in the tick that
\* brings life to maxLife / 2.
C30_RadiusRisesThenFalls ==
  [][ PlayStep =>
        /\ \A n \in DOMAIN shockwaves' :
             shockwaves'[n].id >= shockwaveIdCounter =>
               shockwaves'[n].radius = 0
        /\ \A k \in DOMAIN shockwaves, n \in DOMAIN shockwaves' :
             C30_Same(k, n) =>
               LET old == shockwaves[k]
                   new == shockwaves'[n]
               IN /\ new.life = old.life - 1
                  /\ new.radius >= 0
                  /\ new.radius <= new.maxRadius
                  /\ 2 * new.life >= new.maxLife => new.radius >= old.radius
                  /\ 2 * old.life <= old.maxLife => new.radius <= old.radius
                  /\ 2 * new.life = new.maxLife =>
                       new.radius = new.maxRadius ]_vars

\* A shockwave in the second half of its lifetime, smaller than it has been.
C30_Witness ==
  /\ lastOp = "tick"
  /\ \E k \in DOMAIN shockwaves :
       /\ 2 * shockwaves[k].life < shockwaves[k].maxLife
       /\ shockwaves[k].radius > 0
       /\ shockwaves[k].radius < shockwaves[k].maxRadius
(***************************************************************************)
(* Claims about the order of a tick, expiry and invincibility.              *)
(***************************************************************************)
\* C31: a PLAYING tick resolves its spawn before its collisions, so the
\* enemy a tick spawns faces that tick's shockwave elimination pass: an enemy
\* spawned by the tick is not live in the collection after it when it lies
\* within reach (distance to the shockwave's centre < shockwave.radius +
\* enemy.radius), both where it spawned and where the tick moved it, of a
\* shockwave the tick has processed.
C31_SpawnedFacesShockwaves ==
  [][ PlayStep =>
        \A j \in SpawnedIn(enemies'), k \in DOMAIN shockwaves' :
          shockwaves'[k].id < shockwaveIdCounter =>
            ~ ( /\ ~enemies'[j].isDead
                /\ InReach(shockwaves'[k], [enemies'[j] EXCEPT !.y = SpawnY])
                /\ InReach(shockwaves'[k], enemies'[j]) ) ]_vars


\* C32: pulses and shockwaves expire by their life countdown.  A jump pushes
\* its pulse with life 15 (super) or 8, and every new shockwave has life
\* burningDuration; a PLAYING tick takes one off the life of every pulse and
\* of every shockwave it found in the collection, removes exactly those whose
\* life it brings to 0 and keeps the others: the pulse goes in the 15th or 8th
\* tick after its creation, the shockwave in the burningDuration-th.  After a
\* PLAYING tick every pulse, shockwave and particle has life > 0.
C32_SelfExpiry ==
  [][ /\ JumpDone =>
           /\ pulses'[Len(pulses')].life =
                (IF pulses'[Len(pulses')].isSuper THEN 15 ELSE 8)
           /\ \A n \in DOMAIN shockwaves' :
                shockwaves'[n].id >= shockwaveIdCounter =>
                  shockwaves'[n].life = cfg.burningDuration
      /\ PlayStep =>
           LET keep == { k \in DOMAIN pulses : pulses[k].life > 1 }
           IN /\ Len(pulses') = Cardinality(keep)
              /\ \A k \in keep :
                   \E n \in DOMAIN pulses' :
                     pulses'[n] = [ pulses[k] EXCEPT !.life = @ - 1 ]
              /\ \A k \in DOMAIN shockwaves :
                   IF shockwaves[k].life > 1
                   THEN \E n \in DOMAIN shockwaves' :
                          /\ C30_Same(k, n)
                          /\ shockwaves'[n].life = shockwaves[k].life - 1
                   ELSE C30_Removed(k)
              /\ \A n \in DOMAIN shockwaves' :
                   shockwaves'[n].id >= shockwaveIdCounter =>
                     shockwaves'[n].life = cfg.burningDuration
              /\ \A n \in DOMAIN pulses' : pulses'[n].life > 0
              /\ \A n \in DOMAIN shockwaves' : shockwaves'[n].life > 0
              /\ \A n \in DOMAIN particles' : particles'[n].life > 0 ]_vars

\* The 15th tick after a super jump whose pulse eliminated an enemy (the
\* particles of the jump's burst start with life 20): the pulse and the
\* shockwave are gone.
C32_Witness ==
  /\ lastOp = "tick"
  /\ gameState = PLAYING
  /\ pulses = <<>>
  /\ shockwaves = <<>>
  /\ shockwaveIdCounter > 0
  /\ \E g \in DOMAIN particles :
       /\ particles[g].color = "ORANGE"
       /\ particles[g].life = 20 - SuperPulseLife

\* C33: every enemy leaves the collection.  An enemy's speed is positive; a
\* PLAYING tick adds the speed to the y of every enemy and changes nothing
\* else of the enemies it keeps; it removes every enemy that is dead or
\* whose new y is at least GAME_HEIGHT + 50 and keeps every live enemy that
\* stays above that line and that no shockwave reaches; after the tick every
\* stored enemy is live with y < GAME_HEIGHT + 50.  A jump moves no enemy.
C33_EnemiesLeave ==
  [][ /\ JumpStep =>
           /\ Len(enemies') = Len(enemies)
           /\ \A i \in DOMAIN enemies : enemies'[i].y = enemies[i].y
      /\ PlayStep =>
           /\ \A i \in DOMAIN enemies :
                LET e == enemies[i]
                    low == e.y + e.speed >= GAME_HEIGHT + 5000
                    gone == \A j \in DOMAIN enemies' : enemies'[j].id # e.id
                IN /\ e.speed > 0
                   /\ (e.isDead \/ low) => gone
                   /\ (~e.isDead /\ ~low /\ i \notin C13_Reached) => ~gone
                   /\ \A j \in DOMAIN enemies' :
                        enemies'[j].id = e.id =>
                          enemies'[j] = [ e EXCEPT !.y = e.y + e.speed ]
           /\ \A j \in SpawnedIn(enemies') :
                enemies'[j].y = enemies'[j].speed - 3000
           /\ \A j \in DOMAIN enemies' :
                /\ ~enemies'[j].isDead
                /\ enemies'[j].speed > 0
                /\ enemies'[j].y < GAME_HEIGHT + 5000 ]_vars

\* Two enemies spawned a tick apart, nothing ever eliminated: the tick has
\* removed the first, 50 units below the field, and kept the second, which
\* the next tick takes there.
C33_Witness ==
  /\ lastOp = "tick"
  /\ gameState = PLAYING
  /\ shockwaveIdCounter = 0
  /\ enemyIdCounter = 2
  /\ Len(enemies) = 1
  /\ enemies[1].id = 1
  /\ enemies[1].y + enemies[1].speed >= GAME_HEIGHT + 5000

\* C34: the invincibility window.  A super jump sets invincibilityFrames to
\* 15; a PLAYING tick takes 1 off it while it is positive and leaves it at 0
\* otherwise (it is never negative); a PLAYING tick that leaves it positive,
\* as each of the 14 ticks after the super jump does, asks for GAMEOVER only
\* when the player has fallen past the bottom.
C34_InvincibilityWindow ==
  [][ /\ (JumpDone /\ pulses'[Len(pulses')].isSuper) =>
           invincibilityFrames' = 15
      /\ PlayStep =>
           /\ invincibilityFrames' =
                (IF invincibilityFrames > 0 THEN invincibilityFrames - 1
                 ELSE 0)
           /\ invincibilityFrames' >= 0
           /\ ( /\ invincibilityFrames' > 0
                /\ GameStateAhead # GAMEOVER
                /\ GameStateAhead' = GAMEOVER ) => player'.y > GAME_HEIGHT ]_vars

\* The 15th tick after a super jump (the particles of the jump's burst start
\* with life 20) has brought invincibilityFrames to 0 and asked for GAMEOVER
\* with the player inside the field: a lethal contact.
C34_Witness ==
  /\ lastOp = "tick"
  /\ jumps = 1
  /\ invincibilityFrames = 0
  /\ gameState = PLAYING
  /\ GameStateAhead = GAMEOVER
  /\ player.y <= GAME_HEIGHT
  /\ stale = 0
  /\ \E g \in DOMAIN particles :
       /\ particles[g].color = "ORANGE"
       /\ particles[g].life = 20 - 15

\* C35: invincibility does not protect against the fall.  A PLAYING tick
\* that leaves the player with y > GAME_HEIGHT asks for GAMEOVER, whatever
\* invincibilityFrames is.
C35_FallIgnoresInvincibility ==
  [][ (PlayStep /\ player'.y > GAME_HEIGHT) =>
        GameStateAhead' = GAMEOVER ]_vars

\* A tick of the session has taken the invincible player past the bottom and
\* asked for GAMEOVER.
C35_Witness ==
  /\ lastOp = "tick"
  /\ gameState = PLAYING
  /\ stale = 0
  /\ invincibilityFrames > 0
  /\ player.y > GAME_HEIGHT
  /\ GameStateAhead = GAMEOVER

(***************************************************************************)
(* Claims about chaining and the recoil.                                    *)
(***************************************************************************)
\* The shockwaves the step has created: ids are given in creation order, from
\* shockwaveIdCounter on.
C36_Created ==
  { n \in DOMAIN shockwaves' : shockwaves'[n].id >= shockwaveIdCounter }

\* The enemies that were live before the step.
C36_Live == { i \in DOMAIN enemies : ~enemies[i].isDead }

\* C36: chaining is bounded by the enemy population.  With the burning
\* switched on, a jump creates one shockwave for each enemy its pulse marks
\* dead and a PLAYING tick one for each live enemy a shockwave eliminates
\* (none with the burning switched off), never more than there were live
\* enemies; an enemy that is dead stays dead and creates nothing.  A
\* shockwave created by a tick leaves the tick as it was created, with radius
\* 0 and its full life: the tick has not advanced it, every shockwave the
\* tick has advanced was in the collection before, and every enemy the tick
\* has eliminated lay within reach of one of those.
C36_ChainingBounded ==
  [][ /\ JumpDone =>
           /\ Cardinality(C36_Created)
                = (IF cfg.burningEnabled
                   THEN Cardinality({ i \in DOMAIN enemies : PulseKilled(i) })
                   ELSE 0)
           /\ Cardinality(C36_Created) <= Cardinality(C36_Live)
           /\ \A i \in DOMAIN enemies : enemies[i].isDead => enemies'[i].isDead
      /\ PlayStep =>
           /\ Cardinality(C36_Created)
                = (IF cfg.burningEnabled
                   THEN Cardinality({ i \in DOMAIN enemies :
                                        ShockwaveKilled(i) })
                   ELSE 0)
           /\ Cardinality(C36_Created) <= Cardinality(C36_Live)
           /\ \A i \in DOMAIN enemies : ShockwaveKilled(i) => i \in C13_Reached
           /\ \A n \in DOMAIN shockwaves' :
                \/ n \in C36_Created
                \/ \E k \in DOMAIN shockwaves :
                     /\ C30_Same(k, n)
                     /\ shockwaves'[n].life = shockwaves[k].life - 1
      /\ (JumpDone \/ PlayStep) =>
           /\ shockwaveIdCounter'
                = shockwaveIdCounter + Cardinality(C36_Created)
           /\ \A n \in C36_Created :
                /\ shockwaves'[n].radius = 0
                /\ shockwaves'[n].life = shockwaves'[n].maxLife
                /\ shockwaves'[n].life = cfg.burningDuration ]_vars

\* A tick in which a shockwave, advanced to a positive radius, eliminated the
\* last enemy: the chained shockwave is in the collection with radius 0 and
\* its full life, next to the one that made it.
C36_Witness ==
  /\ lastOp = "tick"
  /\ enemies = <<>>
  /\ \E k, n \in DOMAIN shockwaves :
       /\ shockwaves[k].id < shockwaves[n].id
       /\ shockwaves[k].radius > 0
       /\ shockwaves[k].life < shockwaves[k].maxLife
       /\ shockwaves[n].id = shockwaveIdCounter - 1
       /\ shockwaves[n].radius = 0
       /\ shockwaves[n].life = shockwaves[n].maxLife
       /\ shockwaves[n].maxRadius < shockwaves[k].maxRadius

\* C37: a successful jump replaces the player's velocity.  Whatever the
\* velocity was, after the jump it is -unit(target - centre) * force, that is
\* velocity * |target - centre| = -(target - centre) * force, for one of the
\* targets; for the target on the player's centre it is (0, 0).  Every
\* successful jump, that one included, pushes one pulse and takes
\* fuelConsumption off the fuel (the fuel is then fuel - fuelConsumption, or
\* maxFuel when the pulse of the jump eliminates an enemy and refills it).
C37_JumpReplacesVelocity ==
  [][ JumpDone =>
        LET super == /\ cfg.deadJumpEnabled
                     /\ (player.y + player.height) * 100
                          > GAME_HEIGHT * (100 - cfg.deadZoneThreshold)
            force == IF super
                     THEN (cfg.recoilForce * cfg.superJumpMultiplier) \div 100
                     ELSE cfg.recoilForce
        IN /\ \E off \in JumpOffsets :
                LET len == ISqrt(off[1] * off[1] + off[2] * off[2])
                IN IF len = 0
                   THEN player'.vx = 0 /\ player'.vy = 0
                   ELSE /\ player'.vx * len = -(off[1] * force)
                        /\ player'.vy * len = -(off[2] * force)
           /\ Len(pulses') = Len(pulses) + 1
           /\ player'.fuel =
                (IF \E i \in DOMAIN enemies : PulseKilled(i)
                 THEN player.maxFuel
                 ELSE player.fuel - cfg.fuelConsumption) ]_vars

\* The only jump of a session, after a tick or more of falling, aimed at the
\* player's centre: the player stands still, a tankful less fuelConsumption
\* is left and the pulse is in the collection.
C37_Witness ==
  /\ lastOp = "jump"
  /\ jumps = 1
  /\ playTicks >= 1
  /\ cfg.gravity > 0
  /\ player.vx = 0
  /\ player.vy = 0
  /\ player.fuel = player.maxFuel - cfg.fuelConsumption
  /\ Len(pulses) = 1

====
